---- MODULE Spec2Model ----
(***************************************************************************)
(* A model of wikipedia_core: the page assembler of parser.rs, the         *)
(* filename encoder of filename_encoding.rs, the collision-resolving       *)
(* artifact writer and the batch generation of generator.rs.               *)
(*                                                                         *)
(* Text is a sequence of atoms.  An atom is a TLA+ string standing for one *)
(* character ("W", " ", "/"), for one non-ASCII character named by its     *)
(* code point ("U+00E4"), for a literal of the source kept whole           *)
(* ("Multiple articles found", "# ", "\n\n"), or for a run of one repeated *)
(* letter ("[a x 991]").  Utf8Len gives the bytes an atom takes in UTF-8,  *)
(* which is what Rust's str::len counts; CharLen gives its characters.     *)
(***************************************************************************)
EXTENDS Integers, Sequences, FiniteSets, TLC

VARIABLES
    pc,              \* where the run is: "start", "parse", "failed", "parsed",
                     \* "manifest", "resources", "articles", "done"; "writer"
                     \* under WriterSpec, "encoder" under EncoderSpec, "cleaner"
                     \* under CleanSpec, "gate" under GateSpec
    config,          \* Config: max_articles, topic_filter, exact_matches
    extension,       \* Config: the extension of input_path, as text ("" when it has none)
    open_tags,       \* the decoder's stack of open elements
    n_elements,      \* start tags and ignored events read so far
    current_article, \* parse: None (<<>>) or Some (<<Article>>)
    current_content, \* parse: the text accumulation buffer
    articles_processed,
    skip_content,
    articles,        \* WikipediaParser.articles, then StaticMcpGenerator.articles
    redirects,       \* WikipediaParser.redirects
    first_id,        \* history: the value of the first id element closed in the page
    page_text,       \* history: the raw text of the page's latest text element
    last_closed,     \* history: the page closed last: its title, raw text, and what became of it
    since_tag,       \* history: the text events since the latest start or end tag, joined
    handled,         \* parse_streaming on the same events: the titles handed to article_handler
    order,           \* the iteration order of the articles HashMap
    gen_i,           \* generate_article_responses: articles written so far
    outputs,         \* the artifacts besides tools/get_article, by name
    files,           \* tools/get_article/<filename>.json: filename -> ToolResponse
    article_titles,  \* StaticMcpGenerator.article_titles
    categories,      \* StaticMcpGenerator.categories: name -> sequence of titles
    writes,          \* history: the (title, content) pairs written so far, in
                     \* order, each with the filename its title encoded to
    enc_title,       \* the title handed to encode_staticmcp_filename
    enc_name,        \* the filename it returned
    wiki_text,       \* the text handed to clean_wikitext
    wiki_clean,      \* the text it returned
    gate_title,      \* the title handed to should_include_by_title
    gate_filter,     \* the filter handed to it
    gate_result      \* what it returned

parser_vars == <<config, extension, open_tags, n_elements, current_article, current_content,
                 articles_processed, skip_content, articles, redirects, first_id, page_text,
                 last_closed, since_tag, handled>>
writer_vars == <<files, article_titles, categories, writes>>
clean_vars == <<wiki_text, wiki_clean>>
gate_vars == <<gate_title, gate_filter, gate_result>>
enc_vars == <<enc_title, enc_name, clean_vars, gate_vars>>
vars == <<pc, parser_vars, order, gen_i, outputs, writer_vars, enc_vars>>

-----------------------------------------------------------------------------
(* Bounds of the model. *)

MaxWrites == 3
MaxElements == 4
MaxSuffix == 3
MaxListed == 120
MaxText == 3
MaxTitle == 3

-----------------------------------------------------------------------------
(* Text helpers. *)

RECURSIVE SumLen(_, _)
SumLen(s, f) == IF s = <<>> THEN 0 ELSE (IF Head(s) \in DOMAIN f THEN f[Head(s)] ELSE 1) + SumLen(Tail(s), f)

\* Atoms that take more than one byte in UTF-8.
Utf8Table ==
    [a \in {"U+00E4", "U+0308", "[bullet]", "# ", "\n\n", "---", "## ", "Multiple articles found",
            ". Choose the one you need:", " **", "** - Use get_article tool with title '", "'\n",
            "Unknown", "[s x 5]", "[a x 991]", "[b x 1000]", "[b x 1001]", "[U+00E9 x 600]"} |->
        CASE a = "U+00E4" -> 2
          [] a = "U+0308" -> 2
          [] a = "[bullet]" -> 7
          [] a = "# " -> 2
          [] a = "\n\n" -> 2
          [] a = "---" -> 3
          [] a = "## " -> 3
          [] a = "Multiple articles found" -> 23
          [] a = ". Choose the one you need:" -> 26
          [] a = " **" -> 3
          [] a = "** - Use get_article tool with title '" -> 38
          [] a = "'\n" -> 2
          [] a = "Unknown" -> 7
          [] a = "[s x 5]" -> 5
          [] a = "[a x 991]" -> 991
          [] a = "[b x 1000]" -> 1000
          [] a = "[b x 1001]" -> 1001
          [] a = "[U+00E9 x 600]" -> 1200]

\* The same atoms counted in characters.
CharTable ==
    [a \in DOMAIN Utf8Table |->
        CASE a = "U+00E4" -> 1
          [] a = "U+0308" -> 1
          [] a = "[bullet]" -> 3
          [] a = "[U+00E9 x 600]" -> 600
          [] OTHER -> Utf8Table[a]]

\* str::len: the length in bytes.
Utf8Len(s) == SumLen(s, Utf8Table)

\* The length in characters.
CharLen(s) == SumLen(s, CharTable)

\* str::starts_with
StartsWith(s, p) == Len(s) >= Len(p) /\ SubSeq(s, 1, Len(p)) = p

\* str::contains
Contains(s, p) == \E i \in 0..(Len(s) - Len(p)) : SubSeq(s, i + 1, i + Len(p)) = p

-----------------------------------------------------------------------------
(* filename_encoding.rs *)

MAX_FILENAME_LENGTH == 200

\* Canonical decomposition of one character: a precomposed letter becomes its
\* base letter followed by its combining mark.
NfdChar(c) ==
    CASE c = "U+00E4" -> <<"a", "U+0308">>
      [] OTHER -> <<c>>

is_combining_mark(c) == c \in {"U+0308"}

\* text.nfd().filter(|c| !is_combining_mark(*c)), one half of the text after
\* the other.
RECURSIVE normalize_unicode(_)
normalize_unicode(text) ==
    IF text = <<>> THEN <<>>
    ELSE IF Len(text) = 1
    THEN SelectSeq(NfdChar(text[1]), LAMBDA c : ~is_combining_mark(c))
    ELSE LET half == Len(text) \div 2
         IN  normalize_unicode(SubSeq(text, 1, half))
                 \o normalize_unicode(SubSeq(text, half + 1, Len(text)))

UpperCase == <<"A", "B", "C", "D", "E", "F", "G", "H", "I", "J", "K", "L", "M",
               "N", "O", "P", "Q", "R", "S", "T", "U", "V", "W", "X", "Y", "Z">>
LowerCase == <<"a", "b", "c", "d", "e", "f", "g", "h", "i", "j", "k", "l", "m",
               "n", "o", "p", "q", "r", "s", "t", "u", "v", "w", "x", "y", "z">>
Digits == {"0", "1", "2", "3", "4", "5", "6", "7", "8", "9"}

\* char::to_lowercase on the characters of the model's alphabet.
LowerChar(c) ==
    IF \E i \in 1..26 : UpperCase[i] = c
    THEN LowerCase[CHOOSE i \in 1..26 : UpperCase[i] = c]
    ELSE c

\* str::to_lowercase
ToLower(text) == [i \in 1..Len(text) |-> LowerChar(text[i])]

SafeChar(c) ==
    IF (\E i \in 1..26 : LowerCase[i] = c) \/ c \in Digits \/ c = "-" \/ c = "_"
    THEN c
    ELSE "_"

\* make_filename_safe that forgets to lower-case.
make_filename_safe_without_lowercase(text) == [i \in 1..Len(text) |-> SafeChar(text[i])]

make_filename_safe(text) == [i \in 1..Len(text) |-> SafeChar(ToLower(text)[i])]

\* DefaultHasher over the original title, rendered {:016x}: 16 hexadecimal
\* digits.  The hash is kept symbolic: digit i of the hash of a title is one
\* atom that names the digit and the title.
HashHex(original) == [i \in 1..16 |-> "hex" \o ToString(i) \o "of" \o ToString(original)]

\* create_short_filename hashing the encoded name.
create_short_filename_hashing_encoded(original, encoded) ==
    LET prefix_len == MAX_FILENAME_LENGTH - 17
        n == IF prefix_len < Len(encoded) THEN prefix_len ELSE Len(encoded)
    IN  SubSeq(encoded, 1, n) \o <<"_">> \o HashHex(encoded)

\* create_short_filename leaving one character too few for the hash.
create_short_filename_long_prefix(original, encoded) ==
    LET prefix_len == MAX_FILENAME_LENGTH - 16
        n == IF prefix_len < Len(encoded) THEN prefix_len ELSE Len(encoded)
    IN  SubSeq(encoded, 1, n) \o <<"_">> \o HashHex(original)

create_short_filename(original, encoded) ==
    LET prefix_len == MAX_FILENAME_LENGTH - 17
        n == IF prefix_len < Len(encoded) THEN prefix_len ELSE Len(encoded)
    IN  SubSeq(encoded, 1, n) \o <<"_">> \o HashHex(original)

\* encode_staticmcp_filename sending a name of exactly the limit to the hash.
encode_below_limit(name) ==
    LET normalized == normalize_unicode(name)
        safe_chars == make_filename_safe(normalized)
    IN  IF Len(safe_chars) < MAX_FILENAME_LENGTH
        THEN safe_chars
        ELSE create_short_filename(name, safe_chars)

encode_staticmcp_filename(name) ==
    LET normalized == normalize_unicode(name)
        safe_chars == make_filename_safe(normalized)
    IN  IF Len(safe_chars) <= MAX_FILENAME_LENGTH
        THEN safe_chars
        ELSE create_short_filename(name, safe_chars)

-----------------------------------------------------------------------------
(* types.rs and the categorizer the tests plug in. *)

\* ToolResponse { content: vec![ToolContent { type: "text", text }] }
ToolResponse(text) == [content |-> <<[type |-> "text", text |-> text]>>]

\* TestCategorizer::categorize: "war" when the lower-cased title contains it.
categorize(title, content) ==
    IF Contains(ToLower(title), <<"w", "a", "r">>) THEN <<"war">> ELSE <<>>

CategoryNames == {"war"}

-----------------------------------------------------------------------------
(* generator.rs: the collision-resolving artifact writer. *)

\* The size threshold of merge_with_existing_content, in bytes (str::len).
MergeThreshold == 1000

\* str::lines().next(): the text before the first line break.
RECURSIVE FirstLine(_)
FirstLine(s) ==
    IF s = <<>> \/ Head(s) = "\n\n" THEN <<>>
    ELSE <<Head(s)>> \o FirstLine(Tail(s))

extract_title_from_content(content) ==
    IF StartsWith(content, <<"# ">>)
    THEN Tail(FirstLine(content))
    ELSE <<"Unknown">>

\* "[bullet] **{t}** - Use get_article tool with title '{t}'\n"
IndexEntry(t) ==
    <<"[bullet]", " **">> \o t \o <<"** - Use get_article tool with title '">> \o t \o <<"'\n">>

IndexHeader == <<"Multiple articles found", ". Choose the one you need:", "\n\n">>

Divider == <<"\n\n", "---", "\n\n">>

\* Mutants of merge_with_existing_content.
merge_either_short(existing_text, new_title, new_content) ==
    IF StartsWith(existing_text, <<"Multiple articles found">>)
    THEN existing_text \o IndexEntry(new_title)
    ELSE IF Utf8Len(existing_text) <= MergeThreshold \/ Utf8Len(new_content) <= MergeThreshold
    THEN existing_text \o Divider \o <<"## ">> \o new_title \o <<"\n\n">> \o new_content
    ELSE IndexHeader \o IndexEntry(extract_title_from_content(existing_text))
                     \o IndexEntry(new_title)

merge_index_unchecked(existing_text, new_title, new_content) ==
    IF Utf8Len(existing_text) <= MergeThreshold /\ Utf8Len(new_content) <= MergeThreshold
    THEN existing_text \o Divider \o <<"## ">> \o new_title \o <<"\n\n">> \o new_content
    ELSE IndexHeader \o IndexEntry(extract_title_from_content(existing_text))
                     \o IndexEntry(new_title)

merge_index_replaced(existing_text, new_title, new_content) ==
    IF StartsWith(existing_text, <<"Multiple articles found">>)
    THEN IndexHeader \o IndexEntry(new_title)
    ELSE IF Utf8Len(existing_text) <= MergeThreshold /\ Utf8Len(new_content) <= MergeThreshold
    THEN existing_text \o Divider \o <<"## ">> \o new_title \o <<"\n\n">> \o new_content
    ELSE IndexHeader \o IndexEntry(extract_title_from_content(existing_text))
                     \o IndexEntry(new_title)

merge_below_threshold(existing_text, new_title, new_content) ==
    IF StartsWith(existing_text, <<"Multiple articles found">>)
    THEN existing_text \o IndexEntry(new_title)
    ELSE IF Utf8Len(existing_text) < MergeThreshold /\ Utf8Len(new_content) < MergeThreshold
    THEN existing_text \o Divider \o <<"## ">> \o new_title \o <<"\n\n">> \o new_content
    ELSE IndexHeader \o IndexEntry(extract_title_from_content(existing_text))
                     \o IndexEntry(new_title)

merge_with_existing_content(existing_text, new_title, new_content) ==
    IF StartsWith(existing_text, <<"Multiple articles found">>)
    THEN existing_text \o IndexEntry(new_title)
    ELSE IF Utf8Len(existing_text) <= MergeThreshold /\ Utf8Len(new_content) <= MergeThreshold
    THEN existing_text \o Divider \o <<"## ">> \o new_title \o <<"\n\n">> \o new_content
    ELSE IndexHeader \o IndexEntry(extract_title_from_content(existing_text))
                     \o IndexEntry(new_title)

\* Mutants of FreshBody.
FreshBody_no_heading(title, content) == title \o <<"\n\n">> \o content

FreshBody_no_blank_line(title, content) == <<"# ">> \o title \o <<"\n">> \o content

\* format!("# {}\n\n{}", title, article.content)
FreshBody(title, content) == <<"# ">> \o title \o <<"\n\n">> \o content

\* categories.entry(category).or_default().push(title) for each category.
RECURSIVE PushCategories(_, _, _)
PushCategories(cats, names, title) ==
    IF names = <<>> THEN cats
    ELSE LET c == Head(names)
             next == IF c \in DOMAIN cats
                     THEN [cats EXCEPT ![c] = Append(@, title)]
                     ELSE [k \in DOMAIN cats \cup {c} |-> IF k = c THEN <<title>> ELSE cats[k]]
         IN  PushCategories(next, Tail(names), title)

\* The artifact tree after write_article_with_collision_handling(title, article).
FilesAfterWrite(fs, title, content) ==
    LET filename == encode_staticmcp_filename(title)
        text == IF filename \in DOMAIN fs
                THEN merge_with_existing_content(fs[filename].content[1].text, title, content)
                ELSE FreshBody(title, content)
    IN  [f \in DOMAIN fs \cup {filename} |-> IF f = filename THEN ToolResponse(text) ELSE fs[f]]

write_article_with_collision_handling(title, content) ==
    /\ article_titles' = article_titles \cup {title}
    /\ categories' = PushCategories(categories, categorize(title, content), title)
    /\ files' = FilesAfterWrite(files, title, content)
    /\ writes' = Append(writes, [title |-> title, content |-> content,
                                 file |-> encode_staticmcp_filename(title)])

-----------------------------------------------------------------------------
(* The writer driven through its public entry point, as a streaming run    *)
(* drives it: any title with any content, in any order.                    *)

WriterTitles ==
    { <<"W", "a", "r", " ", "A">>,
      <<"W", "a", "r", "/", "A">>,
      <<"W", "a", "r", "_", "A">>,
      <<"R", "o", "m", "e">> }

\* Cleaned article contents: 5 bytes; 991 bytes, which makes a fresh body of
\* exactly 1000 bytes under a 5-byte title; 1000 and 1001 bytes; and 600
\* two-byte letters (600 characters, 1200 bytes).
WriterContents ==
    { <<"[s x 5]">>, <<"[a x 991]">>, <<"[b x 1000]">>, <<"[b x 1001]">>, <<"[U+00E9 x 600]">> }

EmptyFn == [x \in {} |-> <<>>]

\* The extensions the match of generate accepts.
Xml == <<"x", "m", "l">>
Bz2 == <<"b", "z", "2">>

\* The output tree outside tools/get_article before anything is written.
NoOutputs ==
    [directories |-> {}, manifest |-> <<>>, stats |-> <<>>, articles |-> <<>>,
     list_pages |-> <<>>, list_meta |-> <<>>, list_categories |-> <<>>,
     category_files |-> EmptyFn]

WriterInit ==
    /\ pc = "writer"
    /\ config = [max_articles |-> <<>>, topic_filter |-> <<>>, exact_matches |-> FALSE]
    /\ extension = Xml
    /\ open_tags = <<>>
    /\ n_elements = 0
    /\ current_article = <<>>
    /\ current_content = <<>>
    /\ articles_processed = 0
    /\ skip_content = FALSE
    /\ articles = EmptyFn
    /\ redirects = EmptyFn
    /\ first_id = <<>>
    /\ page_text = <<>>
    /\ last_closed = <<>>
    /\ order = <<>>
    /\ gen_i = 0
    /\ outputs = NoOutputs
    /\ files = EmptyFn
    /\ article_titles = {}
    /\ categories = EmptyFn
    /\ writes = <<>>
    /\ enc_title = <<>>
    /\ enc_name = <<>>
    /\ since_tag = <<>>
    /\ handled = {}
    /\ wiki_text = <<>>
    /\ wiki_clean = <<>>
    /\ gate_title = <<>>
    /\ gate_filter = <<>>
    /\ gate_result = FALSE

Write ==
    /\ pc = "writer"
    /\ Len(writes) < MaxWrites
    /\ \E title \in WriterTitles, content \in WriterContents :
           write_article_with_collision_handling(title, content)
    /\ UNCHANGED <<pc, parser_vars, order, gen_i, outputs, enc_vars>>

WriterNext == Write

WriterSpec == WriterInit /\ [][WriterNext]_vars

-----------------------------------------------------------------------------
(* Reading the artifact tree back. *)

\* The text block of the base artifact of filename f.
Base(fs, f) == fs[f].content[1].text

IsIndex(b) == StartsWith(b, <<"Multiple articles found">>)
IsMerged(b) == StartsWith(b, <<"# ">>) /\ Contains(b, Divider)
IsFresh(b) == StartsWith(b, <<"# ">>) /\ ~Contains(b, Divider)

\* The writes so far whose title encodes to filename f, in order.
WritesTo(f) == SelectSeq(writes, LAMBDA w : w.file = f)

\* The write a step has just made, and the filename it went to.
LastWrite == writes'[Len(writes')]
LastFile == LastWrite.file
Wrote == Len(writes') = Len(writes) + 1

\* No title occurs twice among the writes ws.
DistinctTitles(ws) == \A i, j \in 1..Len(ws) : ws[i].title = ws[j].title => i = j

Ordinals == <<"1", "2", "3", "4", "5", "6", "7", "8", "9">>

\* <stem>_k
Sibling(f, k) == f \o <<"_", Ordinals[k]>>

-----------------------------------------------------------------------------
(* Claims about the artifact writer, checked under WriterSpec. *)

\* C1: once the base artifact of a filename is a disambiguation index, every
\* one of the distinct titles written to that filename has a numbered sibling artifact <stem>_k
\* that holds its heading and its full content.
C1_SiblingsKeepContent ==
    \A f \in DOMAIN files :
        (IsIndex(Base(files, f)) /\ DistinctTitles(WritesTo(f))) =>
            \A i \in 1..Len(WritesTo(f)) :
                \E k \in 1..Len(Ordinals) :
                    /\ Sibling(f, k) \in DOMAIN files
                    /\ Contains(Base(files, Sibling(f, k)), WritesTo(f)[i].title)
                    /\ Contains(Base(files, Sibling(f, k)), WritesTo(f)[i].content)

\* C2: a write for T2 to a filename whose base artifact is the fresh body of
\* T1, where that body or the new content is longer than 1000 characters,
\* leaves a disambiguation index that names T1 and T2.
C2_LongCollisionMakesIndex ==
    [][(/\ Wrote
        /\ LastFile \in DOMAIN files
        /\ Len(WritesTo(LastFile)) = 1
        /\ \/ CharLen(Base(files, LastFile)) > 1000
           \/ CharLen(LastWrite.content) > 1000)
       => LET b == Base(files', LastFile)
              t1 == WritesTo(LastFile)[1].title
          IN  /\ StartsWith(b, <<"Multiple articles found">>)
              /\ Contains(b, <<" **">> \o t1 \o <<"** - Use get_article tool with title '">>)
              /\ Contains(b, <<" **">> \o LastWrite.title \o <<"** - Use get_article tool with title '">>)
              /\ ~Contains(b, <<"Unknown">>)]_vars

C2_Witness ==
    \E f \in DOMAIN files :
        /\ Len(WritesTo(f)) = 2
        /\ WritesTo(f)[1].title # WritesTo(f)[2].title
        /\ CharLen(FreshBody(WritesTo(f)[1].title, WritesTo(f)[1].content)) <= 1000
        /\ CharLen(WritesTo(f)[2].content) > 1000
        /\ IsIndex(Base(files, f))

\* C3: a base artifact that is a disambiguation index names every one of the
\* distinct titles written to its filename so far.
C3_IndexNamesEveryTitle ==
    \A f \in DOMAIN files :
        (IsIndex(Base(files, f)) /\ DistinctTitles(WritesTo(f))) =>
            \A i \in 1..Len(WritesTo(f)) :
                Contains(Base(files, f), <<" **">> \o WritesTo(f)[i].title \o <<"** - Use get_article tool with title '">>)

\* C4: once the base artifact of a filename is a disambiguation index, every
\* later write leaves it a disambiguation index, with no article heading and
\* no merge divider in it.
C4_IndexStaysIndex ==
    [][\A f \in DOMAIN files :
           IsIndex(Base(files, f)) =>
               /\ f \in DOMAIN files'
               /\ IsIndex(Base(files', f))
               /\ ~Contains(Base(files', f), <<"# ">>)
               /\ ~Contains(Base(files', f), <<"---">>)]_vars

C4_Witness ==
    \E f \in DOMAIN files :
        /\ Len(WritesTo(f)) = 3
        /\ Utf8Len(WritesTo(f)[2].content) > 1000
        /\ Utf8Len(WritesTo(f)[3].content) <= 1000
        /\ IsIndex(Base(files, f))

\* C5: a write to a filename whose base artifact is a disambiguation index
\* keeps the index as it was and appends exactly one bullet entry, which
\* names the new title.
C5_IndexIsExtended ==
    [][(Wrote /\ LastFile \in DOMAIN files /\ IsIndex(Base(files, LastFile)))
       => LET old == Base(files, LastFile)
              new == Base(files', LastFile)
              t == LastWrite.title
          IN  /\ StartsWith(new, old)
              /\ SubSeq(new, Len(old) + 1, Len(new))
                     = <<"[bullet]", " **">> \o t
                           \o <<"** - Use get_article tool with title '">> \o t \o <<"'\n">>]_vars

C5_Witness ==
    \E f \in DOMAIN files :
        /\ Len(WritesTo(f)) = 3
        /\ IsIndex(Base(files, f))
        /\ Len(SelectSeq(Base(files, f), LAMBDA a : a = "[bullet]")) = 3
        /\ Contains(Base(files, f), IndexEntry(WritesTo(f)[3].title))

\* C6 as claimed, sizes counted in characters: a write for T2 to a filename
\* whose base artifact is the fresh body of T1, both that body and the new
\* content at most 1000 characters long, leaves the existing body, the '---'
\* divider and a section headed by T2, with no index wording.
C6_ShortMergeByChars ==
    [][(/\ Wrote
        /\ LastFile \in DOMAIN files
        /\ Len(WritesTo(LastFile)) = 1
        /\ WritesTo(LastFile)[1].title # LastWrite.title
        /\ CharLen(Base(files, LastFile)) <= 1000
        /\ CharLen(LastWrite.content) <= 1000)
       => LET old == Base(files, LastFile)
              new == Base(files', LastFile)
          IN  /\ new = old \o <<"\n\n", "---", "\n\n", "## ">> \o LastWrite.title
                           \o <<"\n\n">> \o LastWrite.content
              /\ ~Contains(new, <<"Multiple articles found">>)]_vars

\* C6, amended: the same with both sizes counted in UTF-8 bytes.  The merged
\* artifact is the existing body, the '---' divider and a section headed by
\* T2 with its content; it contains both titles and no index wording.
C6_ShortMergeByBytes ==
    [][(/\ Wrote
        /\ LastFile \in DOMAIN files
        /\ Len(WritesTo(LastFile)) = 1
        /\ Utf8Len(Base(files, LastFile)) <= 1000
        /\ Utf8Len(LastWrite.content) <= 1000)
       => LET old == Base(files, LastFile)
              new == Base(files', LastFile)
          IN  /\ new = old \o <<"\n\n", "---", "\n\n", "## ">> \o LastWrite.title
                           \o <<"\n\n">> \o LastWrite.content
              /\ Contains(new, WritesTo(LastFile)[1].title)
              /\ Contains(new, LastWrite.title)
              /\ ~Contains(new, <<"Multiple articles found">>)]_vars

C6_Witness ==
    \E f \in DOMAIN files :
        /\ Len(WritesTo(f)) = 2
        /\ WritesTo(f)[1].title # WritesTo(f)[2].title
        /\ Utf8Len(FreshBody(WritesTo(f)[1].title, WritesTo(f)[1].content)) = 1000
        /\ Utf8Len(WritesTo(f)[2].content) = 1000
        /\ Contains(Base(files, f), <<"---">>)

\* C7: every base artifact is exactly one of a fresh single article, a merged
\* short-form document and a disambiguation index; the first two start with
\* a '# ' heading line, the third with 'Multiple articles found'.
C7_ExactlyOneClass ==
    \A f \in DOMAIN files :
        LET b == Base(files, f)
            fresh == b[1] = "# " /\ ~Contains(b, <<"\n\n", "---", "\n\n", "## ">>)
            merged == b[1] = "# " /\ Contains(b, <<"\n\n", "---", "\n\n", "## ">>)
            index == b[1] = "Multiple articles found"
        IN  /\ Len(files[f].content) = 1
            /\ Len(b) > 0
            /\ Cardinality({k \in {1, 2, 3} : (k = 1 /\ fresh) \/ (k = 2 /\ merged) \/ (k = 3 /\ index)}) = 1
            /\ (Len(WritesTo(f)) = 1 => fresh)
            /\ (index => Len(WritesTo(f)) > 1)

C7_Witness ==
    /\ \E f \in DOMAIN files : IsMerged(Base(files, f)) /\ Len(WritesTo(f)) = 2
    /\ \E f \in DOMAIN files : IsFresh(Base(files, f)) /\ Len(WritesTo(f)) = 1

\* C8: a write for title T to a filename that has no artifact creates one
\* whose single text block is '# T', a blank line and the content.
C8_FreshArtifact ==
    [][(Wrote /\ LastFile \notin DOMAIN files)
       => /\ LastFile \in DOMAIN files'
          /\ files'[LastFile] =
                 [content |-> <<[type |-> "text",
                                 text |-> <<"# ">> \o LastWrite.title \o <<"\n\n">>
                                              \o LastWrite.content]>>]]_vars

C8_Witness ==
    \E f \in DOMAIN files :
        /\ Len(WritesTo(f)) = 1
        /\ Len(files[f].content) = 1
        /\ StartsWith(Base(files, f), <<"# ">> \o WritesTo(f)[1].title \o <<"\n\n">>)

-----------------------------------------------------------------------------
(* parser.rs: clean_wikitext.  Raw wikitext is a sequence of one-character *)
(* atoms; each regular expression of the source is applied in turn, every  *)
(* leftmost non-overlapping match replaced.                                *)

\* s matches the literal lit at position i.
At(s, i, lit) == i >= 1 /\ i + Len(lit) - 1 <= Len(s) /\ SubSeq(s, i, i + Len(lit) - 1) = lit

\* The first position >= i of s that holds a character of stop; Len(s) + 1 if none.
RECURSIVE Scan(_, _, _)
Scan(s, i, stop) ==
    IF i > Len(s) THEN Len(s) + 1
    ELSE IF s[i] \in stop THEN i
    ELSE Scan(s, i + 1, stop)

\* The position after the last "|" of s at or after position i, scanning to e.
RECURSIVE AfterLastPipe(_, _, _, _)
AfterLastPipe(s, i, e, found) ==
    IF i > e THEN found
    ELSE AfterLastPipe(s, i + 1, e, IF s[i] = "|" THEN i + 1 ELSE found)

\* A match of  open [^stop]* close  at position i: <<end, replacement>>, or <<0>>.
\* keep = "none" drops the match, "body" keeps its body ($1), "piped" needs a
\* "|" in the body and keeps what follows the last one.
MatchDelim(s, i, open, stop, close, keep) ==
    IF ~At(s, i, open) THEN <<0>>
    ELSE LET b == i + Len(open)
             j == Scan(s, b, {stop})
         IN  IF ~At(s, j, close) THEN <<0>>
             ELSE IF keep = "none" THEN <<j + Len(close) - 1, <<>> >>
             ELSE IF keep = "body" THEN <<j + Len(close) - 1, SubSeq(s, b, j - 1)>>
             ELSE LET p == AfterLastPipe(s, b, j - 1, 0)
                  IN  IF p = 0 THEN <<0>>
                      ELSE <<j + Len(close) - 1, SubSeq(s, p, j - 1)>>

RECURSIVE ReplaceDelim(_, _, _, _, _, _)
ReplaceDelim(s, i, open, stop, close, keep) ==
    IF i > Len(s) THEN <<>>
    ELSE LET m == MatchDelim(s, i, open, stop, close, keep)
         IN  IF m[1] = 0
             THEN <<s[i]>> \o ReplaceDelim(s, i + 1, open, stop, close, keep)
             ELSE m[2] \o ReplaceDelim(s, m[1] + 1, open, stop, close, keep)

\* <ref[^>]*>[^<]*</ref>
MatchRef(s, i) ==
    IF ~At(s, i, <<"<", "r", "e", "f">>) THEN 0
    ELSE LET j == Scan(s, i + 4, {">"})
         IN  IF j > Len(s) THEN 0
             ELSE LET k == Scan(s, j + 1, {"<"})
                  IN  IF At(s, k, <<"<", "/", "r", "e", "f", ">">>) THEN k + 5 ELSE 0

RECURSIVE ReplaceRef(_, _)
ReplaceRef(s, i) ==
    IF i > Len(s) THEN <<>>
    ELSE LET e == MatchRef(s, i)
         IN  IF e = 0 THEN <<s[i]>> \o ReplaceRef(s, i + 1) ELSE ReplaceRef(s, e + 1)

\* The number of "=" from position i on.
RECURSIVE RunEq(_, _)
RunEq(s, i) == IF i <= Len(s) /\ s[i] = "=" THEN 1 + RunEq(s, i + 1) ELSE 0

Min(a, b) == IF a < b THEN a ELSE b

\* ={2,6}([^=]*?)={2,6} at position i: <<end, body>>, or <<0>>.
MatchHeading(s, i) ==
    LET n == RunEq(s, i)
        j == Scan(s, i + n, {"="})
    IN  IF n < 2 THEN <<0>>
        ELSE IF n <= 6 /\ RunEq(s, j) >= 2
        THEN <<j + Min(RunEq(s, j), 6) - 1, SubSeq(s, i + n, j - 1)>>
        ELSE IF n >= 4
        THEN LET k1 == Min(6, n - 2)
             IN  <<i + k1 + Min(n - k1, 6) - 1, <<>> >>
        ELSE <<0>>

RECURSIVE ReplaceHeading(_, _)
ReplaceHeading(s, i) ==
    IF i > Len(s) THEN <<>>
    ELSE LET m == MatchHeading(s, i)
         IN  IF m[1] = 0 THEN <<s[i]>> \o ReplaceHeading(s, i + 1)
             ELSE m[2] \o ReplaceHeading(s, m[1] + 1)

Whitespace == {" ", "\t", "\r"}

\* str::trim
RECURSIVE TrimStart(_)
TrimStart(s) == IF s # <<>> /\ Head(s) \in Whitespace THEN TrimStart(Tail(s)) ELSE s

RECURSIVE TrimEnd(_)
TrimEnd(s) ==
    IF s # <<>> /\ s[Len(s)] \in Whitespace THEN TrimEnd(SubSeq(s, 1, Len(s) - 1)) ELSE s

\* A trim of the front only.
trim_start_only(s) == TrimStart(s)

Trim(s) == TrimEnd(TrimStart(s))

\* str::lines
RECURSIVE Lines(_)
Lines(s) ==
    IF s = <<>> THEN <<>>
    ELSE LET j == Scan(s, 1, {"\n"})
         IN  <<SubSeq(s, 1, j - 1)>> \o Lines(SubSeq(s, j + 1, Len(s)))

\* [String]::join("\n")
RECURSIVE JoinLines(_)
JoinLines(ls) ==
    IF ls = <<>> THEN <<>>
    ELSE IF Len(ls) = 1 THEN ls[1]
    ELSE ls[1] \o <<"\n">> \o JoinLines(Tail(ls))

\* The eleven replacements of clean_wikitext, in order.
strip_markup(content) ==
    LET r1 == ReplaceDelim(content, 1, <<"{", "{">>, "}", <<"}", "}">>, "none")
        r2 == ReplaceDelim(r1, 1, <<"[", "[", "C", "a", "t", "e", "g", "o", "r", "y", ":">>,
                           "]", <<"]", "]">>, "none")
        r3 == ReplaceDelim(r2, 1, <<"[", "[", "F", "i", "l", "e", ":">>, "]", <<"]", "]">>, "none")
        r4 == ReplaceDelim(r3, 1, <<"[", "[">>, "]", <<"]", "]">>, "piped")
        r5 == ReplaceDelim(r4, 1, <<"[", "[">>, "]", <<"]", "]">>, "body")
        r6 == ReplaceDelim(r5, 1, <<"'", "'", "'">>, "'", <<"'", "'", "'">>, "body")
        r7 == ReplaceDelim(r6, 1, <<"'", "'">>, "'", <<"'", "'">>, "body")
        r8 == ReplaceRef(r7, 1)
        r9 == ReplaceDelim(r8, 1, <<"<", "n", "o", "w", "i", "k", "i", ">">>, "<",
                           <<"<", "/", "n", "o", "w", "i", "k", "i", ">">>, "none")
        r10 == ReplaceDelim(r9, 1, <<"<">>, ">", <<">">>, "none")
    IN  ReplaceHeading(r10, 1)

clean_wikitext(content) ==
    LET cleaned == strip_markup(content)
        trimmed == [i \in 1..Len(Lines(cleaned)) |-> Trim(Lines(cleaned)[i])]
    IN  JoinLines(SelectSeq(trimmed, LAMBDA l : l # <<>>))

-----------------------------------------------------------------------------
(* filters.rs is not among the source files: TopicFilter is modelled from  *)
(* the specification (4.3) and from what the tests say of it.              *)

\* TopicFilter::keywords: lower-case keywords ("war" and "empire" for History).
keywords(filter) ==
    IF filter = "History"
    THEN {<<"w", "a", "r">>, <<"e", "m", "p", "i", "r", "e">>}
    ELSE {}

\* TopicFilter::is_relevant: relevance of title and cleaned content taken
\* together; a keyword in the body is enough.
is_relevant(filter, title, content) ==
    \E k \in keywords(filter) : Contains(ToLower(title), k) \/ Contains(ToLower(content), k)

-----------------------------------------------------------------------------
(* parser.rs: the two gates. *)

None == <<>>
Some(x) == <<x>>

excluded_prefixes ==
    { <<"F", "i", "l", "e", ":">>,
      <<"C", "a", "t", "e", "g", "o", "r", "y", ":">>,
      <<"T", "e", "m", "p", "l", "a", "t", "e", ":">>,
      <<"U", "s", "e", "r", ":">>,
      <<"T", "a", "l", "k", ":">>,
      <<"W", "i", "k", "i", "p", "e", "d", "i", "a", ":">>,
      <<"H", "e", "l", "p", ":">>,
      <<"P", "o", "r", "t", "a", "l", ":">>,
      <<"M", "e", "d", "i", "a", "W", "i", "k", "i", ":">>,
      <<"M", "o", "d", "u", "l", "e", ":">> }

\* should_include_by_title without the namespace test.
title_gate_without_namespaces(title, topic_filter) ==
    IF title = <<>> THEN FALSE
    ELSE IF topic_filter # None
    THEN \E keyword \in keywords(topic_filter[1]) : Contains(ToLower(title), keyword)
    ELSE TRUE

\* should_include_by_title comparing the title as it is spelt.
title_gate_case_sensitive(title, topic_filter) ==
    IF title = <<>> THEN FALSE
    ELSE IF \E prefix \in excluded_prefixes : StartsWith(title, prefix) THEN FALSE
    ELSE IF topic_filter # None
    THEN \E keyword \in keywords(topic_filter[1]) : Contains(title, keyword)
    ELSE TRUE

should_include_by_title(title, topic_filter) ==
    IF title = <<>> THEN FALSE
    ELSE IF \E prefix \in excluded_prefixes : StartsWith(title, prefix) THEN FALSE
    ELSE IF topic_filter # None
    THEN \E keyword \in keywords(topic_filter[1]) : Contains(ToLower(title), keyword)
    ELSE TRUE

should_include_by_content(article, topic_filter) ==
    IF topic_filter # None
    THEN is_relevant(topic_filter[1], article.title, article.content)
    ELSE TRUE

\* str::parse::<u64>().unwrap_or(0) on the id texts of the model.
DigitValue(c) == CHOOSE n \in 0..9 : <<"0", "1", "2", "3", "4", "5", "6", "7", "8", "9">>[n + 1] = c

RECURSIVE ParseDigits(_, _)
ParseDigits(s, acc) ==
    IF s = <<>> THEN acc ELSE ParseDigits(Tail(s), 10 * acc + DigitValue(Head(s)))

parse_u64_or_0(s) ==
    IF s # <<>> /\ \A i \in 1..Len(s) : s[i] \in Digits THEN ParseDigits(s, 0) ELSE 0

-----------------------------------------------------------------------------
(* parser.rs: WikipediaParser::parse, one action per decoder event.        *)
(* Articles are records [title, content, id, redirect]; an Option is a     *)
(* sequence of length at most one.                                         *)

new_article == [title |-> <<>>, content |-> <<>>, id |-> 0, redirect |-> None]

\* The element names the read loop tells apart, and one it does not.
Tags == {"page", "revision", "title", "id", "text", "redirect"}
Leaves == {"title", "id", "text", "redirect"}

War == <<"W", "a", "r">>
cs == <<"c", "s">>
FileWar == <<"F", "i", "l", "e", ":">> \o War
ModuleCs == <<"M", "o", "d", "u", "l", "e", ":">> \o cs

\* The text an element of the input can hold, by element.
TextsOf(tag) ==
    CASE tag = "title" -> {War, cs, FileWar, ModuleCs}
      [] tag = "id" -> {<<"7">>, <<"0">>, <<"x">>}
      [] tag = "text" -> {<<"{", "{", "t", "}", "}", "w", "a", "r">>, cs}
      [] tag = "redirect" -> {cs}
      [] tag \in {"page", "revision"} -> {cs}
      [] OTHER -> {}

\* A buffer that keeps what it holds.
clear_nothing(content) == content

\* String::clear
clear(content) == <<>>

\* The innermost open element ("" outside every element).
Top == IF open_tags = <<>> THEN "" ELSE open_tags[Len(open_tags)]

\* An insert that keeps the entry already there.
Insert_keeping_first(map, key, value) ==
    [k \in DOMAIN map \cup {key} |-> IF k \in DOMAIN map THEN map[k] ELSE value]

\* HashMap::insert.
Insert(map, key, value) ==
    [k \in DOMAIN map \cup {key} |-> IF k = key THEN value ELSE map[k]]

\* The locals of parse are gone when it returns.
DropLocals ==
    /\ open_tags' = <<>>
    /\ n_elements' = 0
    /\ current_article' = None
    /\ current_content' = <<>>
    /\ articles_processed' = 0
    /\ skip_content' = FALSE
    /\ first_id' = None
    /\ page_text' = <<>>
    /\ since_tag' = <<>>

gen_vars == <<order, gen_i, outputs, writer_vars, enc_vars>>

\* Ok(Event::Start(e))
EvStart(tag) ==
    /\ pc = "parse"
    /\ n_elements < MaxElements
    /\ \/ tag = "page" /\ open_tags = <<>>
       \/ tag = "revision" /\ open_tags # <<>> /\ Top = "page"
       \/ tag \in Leaves /\ (open_tags = <<>> \/ Top \in {"page", "revision"})
    /\ n_elements' = n_elements + 1
    /\ open_tags' = Append(open_tags, tag)
    /\ current_content' = clear(current_content)
    /\ since_tag' = <<>>
    /\ IF tag = "page"
       THEN /\ current_article' = Some(new_article)
            /\ skip_content' = FALSE
            /\ first_id' = None
            /\ page_text' = <<>>
       ELSE UNCHANGED <<current_article, skip_content, first_id, page_text>>
    /\ UNCHANGED <<pc, config, extension, articles_processed, articles, redirects, last_closed,
                   handled, gen_vars>>

\* Ok(Event::Text(e)), the text unescaped without error
EvText(chunk) ==
    /\ pc = "parse"
    /\ open_tags # <<>>
    /\ chunk \in TextsOf(Top)
    /\ \/ current_content = <<>>
       \/ current_content = cs /\ Top \in {"redirect", "page", "revision"}
    /\ current_content' = current_content \o chunk
    /\ since_tag' = since_tag \o chunk
    /\ UNCHANGED <<pc, config, extension, open_tags, n_elements, current_article,
                   articles_processed, skip_content, articles, redirects, first_id, page_text,
                   last_closed, handled, gen_vars>>

\* The close of a page deciding on the content gate alone.
PageOutcome_ignoring_skip(article, skip) ==
    IF should_include_by_content(article, config.topic_filter)
    THEN IF article.redirect # None THEN "redirect" ELSE "article"
    ELSE "none"

\* The close of a page not looking at the redirect target.
PageOutcome_redirect_as_article(article, skip) ==
    IF ~skip /\ should_include_by_content(article, config.topic_filter)
    THEN "article"
    ELSE "none"

\* The handler called for a page whatever the title gate said.
StreamOutcome_ignoring_skip(article, skip) ==
    IF should_include_by_content(article, config.topic_filter)
    THEN "handler"
    ELSE "none"

\* parse_streaming: what the close of a page does with the article.
StreamOutcome(article, skip) ==
    IF ~skip /\ should_include_by_content(article, config.topic_filter)
    THEN "handler"
    ELSE "none"

\* What the close of a page does with the article taken from current_article.
PageOutcome(article, skip) ==
    IF ~skip /\ should_include_by_content(article, config.topic_filter)
    THEN IF article.redirect # None THEN "redirect" ELSE "article"
    ELSE "none"

\* Ok(Event::End(e)) of an element other than page
EndInPage(tag) ==
    LET article == current_article[1] IN
    /\ pc' = pc
    /\ n_elements' = n_elements
    /\ open_tags' = SubSeq(open_tags, 1, Len(open_tags) - 1)
    /\ current_content' = clear(current_content)
    /\ CASE tag = "title" ->
              /\ current_article' = Some([article EXCEPT !.title = current_content])
              /\ skip_content' =
                    IF ~should_include_by_title(current_content, config.topic_filter)
                    THEN TRUE ELSE skip_content
              /\ UNCHANGED <<first_id, page_text>>
         [] tag = "id" ->
              /\ current_article' =
                    IF article.id = 0
                    THEN Some([article EXCEPT !.id = parse_u64_or_0(current_content)])
                    ELSE current_article
              /\ first_id' = IF first_id = None
                             THEN Some(parse_u64_or_0(current_content))
                             ELSE first_id
              /\ UNCHANGED <<skip_content, page_text>>
         [] tag = "text" ->
              /\ current_article' =
                    IF ~skip_content
                    THEN Some([article EXCEPT !.content = clean_wikitext(current_content)])
                    ELSE current_article
              /\ page_text' = current_content
              /\ UNCHANGED <<skip_content, first_id>>
         [] tag = "redirect" ->
              /\ current_article' = Some([article EXCEPT !.redirect = Some(current_content)])
              /\ UNCHANGED <<skip_content, first_id, page_text>>
         [] OTHER -> UNCHANGED <<current_article, skip_content, first_id, page_text>>
    /\ since_tag' = <<>>
    /\ UNCHANGED <<config, extension, articles_processed, articles, redirects, last_closed,
                   handled, gen_vars>>

\* Ok(Event::End(e)) of a page
EndPage ==
    LET article == current_article[1]
        outcome == PageOutcome(article, skip_content)
        processed == IF outcome = "none" THEN articles_processed ELSE articles_processed + 1
        capped == /\ outcome # "none"
                  /\ config.max_articles # None
                  /\ processed >= config.max_articles[1]
    IN
    /\ last_closed' = Some([title |-> article.title, text |-> page_text,
                            content |-> article.content, redirect |-> article.redirect,
                            id |-> article.id, first_id |-> first_id,
                            skipped |-> skip_content, outcome |-> outcome, stopped |-> capped,
                            replaced |-> IF outcome = "article" /\ article.title \in DOMAIN articles
                                         THEN Some(articles[article.title])
                                         ELSE None])
    /\ redirects' = IF outcome = "redirect"
                    THEN Insert(redirects, article.title, article.redirect[1])
                    ELSE redirects
    /\ articles' = IF outcome = "article"
                   THEN Insert(articles, article.title, article)
                   ELSE articles
    /\ handled' = IF StreamOutcome(article, skip_content) = "handler"
                  THEN handled \cup {article.title}
                  ELSE handled
    /\ IF capped
       THEN /\ pc' = "parsed"
            /\ DropLocals
       ELSE /\ pc' = pc
            /\ n_elements' = n_elements
            /\ open_tags' = SubSeq(open_tags, 1, Len(open_tags) - 1)
            /\ current_article' = None
            /\ current_content' = clear(current_content)
            /\ articles_processed' = processed
            /\ skip_content' = FALSE
            /\ first_id' = None
            /\ page_text' = page_text
            /\ since_tag' = <<>>
    /\ UNCHANGED <<config, extension, gen_vars>>

\* Ok(Event::End(e))
EvEnd ==
    /\ pc = "parse"
    /\ open_tags # <<>>
    /\ IF current_article = None
       THEN /\ n_elements' = n_elements
            /\ open_tags' = SubSeq(open_tags, 1, Len(open_tags) - 1)
            /\ current_content' = clear(current_content)
            /\ since_tag' = <<>>
            /\ UNCHANGED <<pc, config, extension, current_article, articles_processed,
                           skip_content, articles, redirects, first_id, page_text, last_closed,
                           handled, gen_vars>>
       ELSE IF Top = "page" THEN EndPage ELSE EndInPage(Top)

\* An event the loop ignores: Empty, Comment, CData, Decl, PI, DocType.
EvOther ==
    /\ pc = "parse"
    /\ n_elements < MaxElements
    /\ n_elements' = n_elements + 1
    /\ UNCHANGED <<pc, config, extension, open_tags, current_article, current_content,
                   articles_processed, skip_content, articles, redirects, first_id, page_text,
                   last_closed, since_tag, handled, gen_vars>>

\* Ok(Event::Eof)
EvEof ==
    /\ pc = "parse"
    /\ pc' = "parsed"
    /\ DropLocals
    /\ UNCHANGED <<config, extension, articles, redirects, last_closed, handled, gen_vars>>

\* Err(e) from the decoder, or from unescaping a text
EvErr ==
    /\ pc = "parse"
    /\ pc' = "failed"
    /\ DropLocals
    /\ UNCHANGED <<config, extension, articles, redirects, last_closed, handled, gen_vars>>

-----------------------------------------------------------------------------
(* lib.rs generate and generator.rs: the batch generation that follows a   *)
(* successful parse.                                                       *)

articles_per_page == 50
inexact_limit == 100

\* The orders in which a HashMap with key set S can iterate.
Orders(S) ==
    {o \in [1..Cardinality(S) -> S] : \A i, j \in 1..Cardinality(S) : o[i] = o[j] => i = j}

RECURSIVE CategoriesOf(_, _)
CategoriesOf(titles, cats) ==
    IF titles = <<>> THEN cats
    ELSE LET title == Head(titles)
         IN  CategoriesOf(Tail(titles),
                 PushCategories(cats, categorize(title, articles[title].content), title))

\* A page count that forgets the last, partial page.
div_floor(a, b) == a \div b

div_ceil(a, b) == (a + b - 1) \div b

\* The generator built whether or not the parse returned an error.
New_ignoring_parse_error ==
    /\ pc \in {"parsed", "failed"}
    /\ pc' = "manifest"
    /\ \E o \in Orders(DOMAIN articles) :
           /\ order' = o
           /\ categories' = CategoriesOf(o, EmptyFn)
    /\ article_titles' = DOMAIN articles
    /\ UNCHANGED <<parser_vars, gen_i, outputs, files, writes, enc_vars>>

\* StaticMcpGenerator::new, reached when parse returned Ok
New ==
    /\ pc = "parsed"
    /\ pc' = "manifest"
    /\ \E o \in Orders(DOMAIN articles) :
           /\ order' = o
           /\ categories' = CategoriesOf(o, EmptyFn)
    /\ article_titles' = DOMAIN articles
    /\ UNCHANGED <<parser_vars, gen_i, outputs, files, writes, enc_vars>>

\* create_directories: the output directory ("") and those below it.
output_directories ==
    {"", "resources", "tools/get_article", "tools/list_articles", "tools/categories"}

\* create_directories and generate_manifest
generate_manifest ==
    /\ pc = "manifest"
    /\ pc' = "resources"
    /\ outputs' = [outputs EXCEPT
           !.directories = output_directories,
           !.manifest =
           Some([resources |-> <<"wikipedia://stats", "wikipedia://articles">>,
                 tools |-> <<"get_article", "list_articles", "list_categories", "categories">>])]
    /\ UNCHANGED <<parser_vars, order, gen_i, writer_vars, enc_vars>>

generate_resources ==
    /\ pc = "resources"
    /\ pc' = "articles"
    /\ outputs' = [outputs EXCEPT
           !.stats = Some([total_articles |-> Cardinality(DOMAIN articles),
                           total_redirects |-> Cardinality(DOMAIN redirects),
                           topic_filter |-> config.topic_filter]),
           !.articles = Some(order)]
    /\ gen_i' = 0
    /\ UNCHANGED <<parser_vars, order, writer_vars, enc_vars>>

\* generate_tools: how many articles get an artifact.
article_limit ==
    IF config.exact_matches
    THEN Cardinality(DOMAIN articles)
    ELSE Min(inexact_limit, Cardinality(DOMAIN articles))

\* One turn of the loop of generate_article_responses.
generate_article_response ==
    /\ pc = "articles"
    /\ gen_i < article_limit
    /\ gen_i' = gen_i + 1
    /\ LET title == order[gen_i + 1]
       IN  write_article_with_collision_handling(title, articles[title].content)
    /\ UNCHANGED <<pc, parser_vars, order, outputs, enc_vars>>

ListPage(page) ==
    LET n == Len(order)
        start_idx == (page - 1) * articles_per_page
        end_idx == Min(start_idx + articles_per_page, n)
    IN  [current_page |-> page,
         total_pages |-> div_ceil(n, articles_per_page),
         per_page |-> articles_per_page,
         total_articles |-> Cardinality(DOMAIN articles),
         articles |-> SubSeq(order, start_idx + 1, end_idx)]

generate_list_tools ==
    /\ pc = "articles"
    /\ gen_i >= article_limit
    /\ pc' = "done"
    /\ LET total_pages == div_ceil(Cardinality(DOMAIN articles), articles_per_page)
       IN  outputs' = [outputs EXCEPT
               !.list_pages = [page \in 1..total_pages |-> ListPage(page)],
               !.list_meta = Some([total_pages |-> total_pages,
                                   per_page |-> articles_per_page,
                                   total_articles |-> Cardinality(DOMAIN articles)]),
               !.list_categories = Some(DOMAIN categories),
               !.category_files =
                   [c \in {k \in DOMAIN categories : categories[k] # <<>>} |->
                       [category |-> c, articles |-> categories[c],
                        count |-> Len(categories[c])]]]
    /\ UNCHANGED <<parser_vars, order, gen_i, writer_vars, enc_vars>>

-----------------------------------------------------------------------------
(* The batch pipeline: generate(config, categorizer) of lib.rs on an input *)
(* with extension xml or bz2.                                              *)

Configs ==
    [max_articles : {None, Some(0), Some(1)},
     topic_filter : {None, Some("History")},
     exact_matches : BOOLEAN]

Init ==
    /\ pc = "parse"
    /\ config \in Configs
    /\ extension = Xml
    /\ open_tags = <<>>
    /\ n_elements = 0
    /\ current_article = None
    /\ current_content = <<>>
    /\ articles_processed = 0
    /\ skip_content = FALSE
    /\ articles = EmptyFn
    /\ redirects = EmptyFn
    /\ first_id = None
    /\ page_text = <<>>
    /\ last_closed = None
    /\ order = <<>>
    /\ gen_i = 0
    /\ outputs = NoOutputs
    /\ files = EmptyFn
    /\ article_titles = {}
    /\ categories = EmptyFn
    /\ writes = <<>>
    /\ enc_title = <<>>
    /\ enc_name = <<>>
    /\ since_tag = <<>>
    /\ handled = {}
    /\ wiki_text = <<>>
    /\ wiki_clean = <<>>
    /\ gate_title = <<>>
    /\ gate_filter = <<>>
    /\ gate_result = FALSE

Next ==
    \/ \E tag \in Tags : EvStart(tag)
    \/ \E tag \in Leaves : \E chunk \in TextsOf(tag) : EvText(chunk)
    \/ EvEnd
    \/ EvOther
    \/ EvEof
    \/ EvErr
    \/ New
    \/ generate_manifest
    \/ generate_resources
    \/ generate_article_response
    \/ generate_list_tools

Spec == Init /\ [][Next]_vars

-----------------------------------------------------------------------------
(* Claims about the two gates, under Spec. *)

Range(seq) == {seq[i] : i \in DOMAIN seq}

HasExcludedPrefix(title) == \E prefix \in excluded_prefixes : StartsWith(title, prefix)

HasKeyword(title) ==
    \E keyword \in keywords(config.topic_filter[1]) : Contains(ToLower(title), keyword)

\* Every title an output names: the title list, the listing pages, the
\* category artifacts and the titles handed to the artifact writer.
OutputTitles ==
    (IF outputs.articles = None THEN {} ELSE Range(outputs.articles[1]))
    \cup UNION {Range(outputs.list_pages[p].articles) : p \in DOMAIN outputs.list_pages}
    \cup UNION {Range(outputs.category_files[c].articles) : c \in DOMAIN outputs.category_files}
    \cup UNION {Range(categories[c]) : c \in DOMAIN categories}
    \cup article_titles
    \cup {writes[i].title : i \in DOMAIN writes}

\* C9: a page whose title begins with an excluded namespace prefix is
\* dropped at its close, with or without a topic filter: no key of
\* ArticleStore or RedirectStore and no title named by an output begins
\* with such a prefix, every per-article artifact belongs to a stored title,
\* and no artifact body mentions a prefix.
C9_NamespacePagesExcluded ==
    /\ last_closed # None /\ HasExcludedPrefix(last_closed[1].title)
          => last_closed[1].outcome = "none"
    /\ \A t \in DOMAIN articles \cup DOMAIN redirects \cup OutputTitles : ~HasExcludedPrefix(t)
    /\ \A f \in DOMAIN files :
          /\ \E t \in DOMAIN articles : f = encode_staticmcp_filename(t)
          /\ \A prefix \in excluded_prefixes : ~Contains(Base(files, f), prefix)

\* A page titled File:War has closed behind an accepted page under the
\* History filter, and generation has finished with an artifact written.
C9_Witness ==
    /\ pc = "done"
    /\ config.topic_filter # None
    /\ last_closed # None
    /\ last_closed[1].title = FileWar
    /\ DOMAIN files # {}
    /\ outputs.list_pages # <<>>

-----------------------------------------------------------------------------
(* Claims about the page assembler, under Spec. *)

\* The step closes a page: the loop handles the end tag of a page element.
ClosesPage ==
    /\ pc = "parse"
    /\ Top = "page"
    /\ current_article # None
    /\ \/ pc' = "parse" /\ Len(open_tags') = Len(open_tags) - 1
       \/ pc' = "parsed" /\ last_closed' # None /\ last_closed'[1].stopped

\* C11: the id of a page is the value of the first id element closed in
\* it, while the page is open and when it closes.
C11_FirstIdWins ==
    /\ current_article # None /\ first_id # None => current_article[1].id = first_id[1]
    /\ last_closed # None /\ last_closed[1].first_id # None
          => last_closed[1].id = last_closed[1].first_id[1]

\* C12: a page accepted at its close with a redirect target set is put in
\* RedirectStore as (title -> target) and ArticleStore is left alone; a
\* page accepted without a redirect target is put in ArticleStore and
\* RedirectStore is left alone.
C12_RedirectsOnlyInRedirectStore ==
    [][ClosesPage /\ last_closed'[1].outcome # "none"
         => LET p == last_closed'[1] IN
            IF p.redirect # None
            THEN /\ p.outcome = "redirect"
                 /\ articles' = articles
                 /\ p.title \in DOMAIN redirects'
                 /\ redirects'[p.title] = p.redirect[1]
                 /\ \A t \in DOMAIN redirects : t # p.title => redirects'[t] = redirects[t]
            ELSE /\ p.outcome = "article"
                 /\ redirects' = redirects
                 /\ p.title \in DOMAIN articles']_vars

\* A redirect page has been accepted: it is in RedirectStore and not in
\* ArticleStore.
C12_Witness ==
    /\ last_closed # None
    /\ last_closed[1].outcome = "redirect"
    /\ last_closed[1].title # <<>>
    /\ last_closed[1].title \in DOMAIN redirects
    /\ last_closed[1].title \notin DOMAIN articles

\* The pages accepted so far are at least the entries of the two stores.
Accepted == Cardinality(DOMAIN articles) + Cardinality(DOMAIN redirects)

\* C13: with a cap N the number of accepted pages never exceeds N, the scan
\* ends with success at the page close that brings it to N and never in the
\* middle of a page, and nothing is processed after it.
C13_CapStopsScan ==
    /\ [](config.max_articles # None => Accepted <= config.max_articles[1])
    /\ [][config.max_articles # None /\ pc = "parse" /\ Accepted' = config.max_articles[1]
             /\ Accepted < Accepted'
          => ClosesPage /\ pc' = "parsed"]_vars
    /\ [][pc # "parse" => articles' = articles /\ redirects' = redirects]_vars

\* C14: the entry ArticleStore holds for the title of an accepted page
\* without redirect target is that page: its content and its id replace
\* those of an earlier page with the same title, and the other entries stay.
C14_LastPageWins ==
    [][ClosesPage /\ last_closed'[1].outcome = "article"
         => LET p == last_closed'[1] IN
            /\ DOMAIN articles' = DOMAIN articles \cup {p.title}
            /\ articles'[p.title] = [title |-> p.title, content |-> p.content,
                                     id |-> p.id, redirect |-> None]
            /\ \A t \in DOMAIN articles : t # p.title => articles'[t] = articles[t]]_vars

\* A page has replaced an earlier page of the same title that differed from it.
C14_Witness ==
    /\ last_closed # None
    /\ last_closed[1].outcome = "article"
    /\ last_closed[1].replaced # None
    /\ last_closed[1].replaced[1] # articles[last_closed[1].title]

-----------------------------------------------------------------------------
(* The filename encoder on its own: titles are built one character at a   *)
(* time, from nothing or from a run of letters two short of the limit, and *)
(* each is handed to encode_staticmcp_filename.                            *)

EncChars == {"A", "a", "U+00E4", "U+0308", " ", "/", "_"}

LongRun == [i \in 1..(MAX_FILENAME_LENGTH - 2) |-> "A"]

\* The characters appended to the start of the title.
SuffixLen == IF Len(enc_title) >= Len(LongRun) THEN Len(enc_title) - Len(LongRun) ELSE Len(enc_title)

EncoderInit ==
    /\ pc = "encoder"
    /\ config = [max_articles |-> None, topic_filter |-> None, exact_matches |-> FALSE]
    /\ extension = Xml
    /\ open_tags = <<>>
    /\ n_elements = 0
    /\ current_article = None
    /\ current_content = <<>>
    /\ articles_processed = 0
    /\ skip_content = FALSE
    /\ articles = EmptyFn
    /\ redirects = EmptyFn
    /\ first_id = None
    /\ page_text = <<>>
    /\ last_closed = None
    /\ order = <<>>
    /\ gen_i = 0
    /\ outputs = NoOutputs
    /\ files = EmptyFn
    /\ article_titles = {}
    /\ categories = EmptyFn
    /\ writes = <<>>
    /\ enc_title \in {<<>>, LongRun}
    /\ enc_name = encode_staticmcp_filename(enc_title)
    /\ since_tag = <<>>
    /\ handled = {}
    /\ wiki_text = <<>>
    /\ wiki_clean = <<>>
    /\ gate_title = <<>>
    /\ gate_filter = <<>>
    /\ gate_result = FALSE

\* encode_staticmcp_filename(title) for the title one character longer.
Encode ==
    /\ pc = "encoder"
    /\ SuffixLen < MaxSuffix
    /\ \E c \in EncChars :
           /\ enc_title' = Append(enc_title, c)
           /\ enc_name' = encode_staticmcp_filename(enc_title')
    /\ UNCHANGED <<pc, parser_vars, order, gen_i, outputs, writer_vars, clean_vars, gate_vars>>

EncoderNext == Encode

EncoderSpec == EncoderInit /\ [][EncoderNext]_vars

-----------------------------------------------------------------------------
(* Claims about the filename encoder, under EncoderSpec. *)

\* The safe-mapped form of the title: accents stripped, lower-cased, unsafe
\* characters replaced.
SafeForm == make_filename_safe(normalize_unicode(enc_title))

SafeAlphabet == Range(LowerCase) \cup Digits \cup {"-", "_"}

\* Characters a title may exchange at one position without changing what it
\* is called: the cases of a letter, a letter and its accented form, and the
\* three separators.
Alike(c) ==
    CASE c \in {"A", "a", "U+00E4"} -> {"A", "a", "U+00E4"}
      [] c \in {" ", "/", "_"} -> {" ", "/", "_"}
      [] OTHER -> {c}

\* The titles that differ from the title by a character alike, at its first
\* position or at one of the positions appended.
Variants ==
    {[enc_title EXCEPT ![i] = c] :
        i \in {j \in 1..Len(enc_title) : j = 1 \/ j > Len(enc_title) - SuffixLen},
        c \in EncChars} \cap
    {u \in [1..Len(enc_title) -> EncChars] : \A i \in 1..Len(u) : u[i] \in Alike(enc_title[i])}

C16_AlikeTitlesSameName ==
    \A u \in Variants : encode_staticmcp_filename(u) = enc_name

\* C16 amended: the same for titles whose safe-mapped form is at most 200
\* characters long.
C16_AlikeShortTitlesSameName ==
    Len(SafeForm) <= MAX_FILENAME_LENGTH
        => \A u \in Variants : encode_staticmcp_filename(u) = enc_name

\* A title of safe-mapped length 200 with an accented letter and a slash:
\* it has variants in case, accent and separator.
C16_Witness ==
    /\ Len(SafeForm) = MAX_FILENAME_LENGTH
    /\ "U+00E4" \in Range(enc_title)
    /\ "/" \in Range(enc_title)
    /\ Cardinality(Variants) > 1

\* C17: when the safe-mapped form of the title is at most 200 characters
\* long, the encoded filename is that form, made of lower-case ASCII letters,
\* digits, hyphens and underscores only, without a hash.
C17_ShortNameIsSafeForm ==
    Len(SafeForm) <= MAX_FILENAME_LENGTH
        => /\ enc_name = SafeForm
           /\ Range(enc_name) \subseteq SafeAlphabet

\* A title of 201 characters, one of them a combining mark, is encoded to
\* its safe-mapped form of exactly 200 characters.
C17_Witness ==
    /\ Len(enc_title) > MAX_FILENAME_LENGTH
    /\ Len(SafeForm) = MAX_FILENAME_LENGTH
    /\ enc_name = SafeForm

\* C18: when the safe-mapped form is longer than 200 characters, the
\* encoded filename is its first 183 characters, an underscore and the 16
\* hexadecimal digits of the hash of the title as given.
C18_LongNameIsPrefixAndHash ==
    Len(SafeForm) > MAX_FILENAME_LENGTH
        => /\ Len(enc_name) = 183 + 1 + 16
           /\ SubSeq(enc_name, 1, 183) = SubSeq(SafeForm, 1, 183)
           /\ enc_name[184] = "_"
           /\ SubSeq(enc_name, 185, 200) = HashHex(enc_title)
           /\ Len(HashHex(enc_title)) = 16

\* A title that its safe-mapped form differs from, and that is too long, has
\* been encoded.
C18_Witness ==
    /\ Len(SafeForm) > MAX_FILENAME_LENGTH
    /\ SafeForm # enc_title
    /\ " " \in Range(enc_title)

-----------------------------------------------------------------------------
(* The batch generation on its own, for stores of up to MaxListed          *)
(* articles: it starts from the generator StaticMcpGenerator::new has      *)
(* built, with the articles numbered in the order their HashMap iterates.  *)

DigitChars == <<"0", "1", "2", "3", "4", "5", "6", "7", "8", "9">>

\* The title of the k-th article: "t000", "t001", ...
NumberedTitle(k) ==
    <<"t", DigitChars[((k \div 100) % 10) + 1], DigitChars[((k \div 10) % 10) + 1],
      DigitChars[(k % 10) + 1]>>

NumberedArticles(n) ==
    [t \in {NumberedTitle(k) : k \in 1..n} |->
        [title |-> t, content |-> <<"x">>, id |-> 1, redirect |-> None]]

ListInit ==
    /\ pc = "manifest"
    /\ config \in [max_articles : {None}, topic_filter : {None}, exact_matches : BOOLEAN]
    /\ extension = Xml
    /\ open_tags = <<>>
    /\ n_elements = 0
    /\ current_article = None
    /\ current_content = <<>>
    /\ articles_processed = 0
    /\ skip_content = FALSE
    /\ \E n \in 0..MaxListed :
           /\ articles = NumberedArticles(n)
           /\ order = [k \in 1..n |-> NumberedTitle(k)]
           /\ article_titles = {NumberedTitle(k) : k \in 1..n}
    /\ redirects = EmptyFn
    /\ first_id = None
    /\ page_text = <<>>
    /\ last_closed = None
    /\ gen_i = 0
    /\ outputs = NoOutputs
    /\ files = EmptyFn
    /\ categories = EmptyFn
    /\ writes = <<>>
    /\ enc_title = <<>>
    /\ enc_name = <<>>
    /\ since_tag = <<>>
    /\ handled = {}
    /\ wiki_text = <<>>
    /\ wiki_clean = <<>>
    /\ gate_title = <<>>
    /\ gate_filter = <<>>
    /\ gate_result = FALSE

ListNext ==
    \/ generate_manifest
    \/ generate_resources
    \/ generate_article_response
    \/ generate_list_tools

ListSpec == ListInit /\ [][ListNext]_vars

-----------------------------------------------------------------------------
(* Claims about the listing, under ListSpec. *)

\* The places (page, position) at which the listing artifacts name a title.
PlacesOf(t) ==
    {pp \in {<<p, i>> : p \in DOMAIN outputs.list_pages, i \in 1..articles_per_page} :
        /\ pp[2] <= Len(outputs.list_pages[pp[1]].articles)
        /\ outputs.list_pages[pp[1]].articles[pp[2]] = t}

\* C19: for N accepted articles the generation leaves ceil(N/50) listing
\* artifacts, numbered from 1, every accepted title is on exactly one of
\* them, every one but the last holds 50 titles, and the summary artifact
\* states that number of pages; 120 articles give 3.
C19_ListingPages ==
    pc = "done" =>
        LET N == Cardinality(DOMAIN articles)
            pages == outputs.list_pages
        IN  /\ Len(pages) * 50 >= N
            /\ N > 0 => (Len(pages) - 1) * 50 < N
            /\ N = 0 => Len(pages) = 0
            /\ N = 120 => Len(pages) = 3
            /\ \A p \in DOMAIN pages :
                  /\ pages[p].current_page = p
                  /\ pages[p].total_pages = Len(pages)
                  /\ p < Len(pages) => Len(pages[p].articles) = 50
                  /\ Len(pages[p].articles) >= 1
            /\ \A t \in DOMAIN articles : Cardinality(PlacesOf(t)) = 1
            /\ \A p \in DOMAIN pages : Range(pages[p].articles) \subseteq DOMAIN articles
            /\ outputs.list_meta[1].total_pages = Len(pages)

\* 120 articles have been listed on 3 pages, the last of 20 titles.
C19_Witness ==
    /\ pc = "done"
    /\ Cardinality(DOMAIN articles) = 120
    /\ Len(outputs.list_pages) = 3
    /\ Len(outputs.list_pages[3].articles) = 20

-----------------------------------------------------------------------------
(* generate(config, categorizer) of lib.rs from its first line, on inputs  *)
(* of any extension.                                                       *)

Extensions == {Xml, <<"B", "Z", "2">>, <<"X", "m", "l">>, <<"t", "x", "t">>,
               <<"x", "m", "l", "x">>, <<"g", "z">>, <<>>}

\* A match that takes every extension to the parser.
supported_or_not(ext) == TRUE

\* The arm "xml" | "bz2" of the match.
supported(ext) == ext \in {Xml, Bz2}

\* generate up to its match: the parser is built, the extension is
\* lower-cased, and either the parse begins or the error is returned.
generate ==
    /\ pc = "start"
    /\ pc' = IF supported(ToLower(extension)) THEN "parse" ELSE "failed"
    /\ UNCHANGED <<parser_vars, gen_vars>>

GenerateInit ==
    /\ pc = "start"
    /\ config \in {c \in Configs : c.topic_filter = None}
    /\ extension \in Extensions
    /\ open_tags = <<>>
    /\ n_elements = 0
    /\ current_article = None
    /\ current_content = <<>>
    /\ articles_processed = 0
    /\ skip_content = FALSE
    /\ articles = EmptyFn
    /\ redirects = EmptyFn
    /\ first_id = None
    /\ page_text = <<>>
    /\ last_closed = None
    /\ order = <<>>
    /\ gen_i = 0
    /\ outputs = NoOutputs
    /\ files = EmptyFn
    /\ article_titles = {}
    /\ categories = EmptyFn
    /\ writes = <<>>
    /\ enc_title = <<>>
    /\ enc_name = <<>>
    /\ since_tag = <<>>
    /\ handled = {}
    /\ wiki_text = <<>>
    /\ wiki_clean = <<>>
    /\ gate_title = <<>>
    /\ gate_filter = <<>>
    /\ gate_result = FALSE

GenerateNext ==
    \/ generate
    \/ Next

GenerateSpec == GenerateInit /\ [][GenerateNext]_vars

-----------------------------------------------------------------------------
(* Claims about the extension check, under GenerateSpec. *)

\* The extension is xml or bz2 in some mix of upper and lower case.
IsXmlOrBz2 ==
    \/ /\ Len(extension) = 3
       /\ extension[1] \in {"x", "X"}
       /\ extension[2] \in {"m", "M"}
       /\ extension[3] \in {"l", "L"}
    \/ /\ Len(extension) = 3
       /\ extension[1] \in {"b", "B"}
       /\ extension[2] \in {"z", "Z"}
       /\ extension[3] = "2"

\* C20: when the input's extension is neither xml nor bz2, whatever its
\* letter case, generate ends in an error without the parse having begun
\* (nothing read, nothing stored) and without any output directory or
\* artifact.
C20_UnsupportedExtensionRejected ==
    ~IsXmlOrBz2 =>
        /\ pc \in {"start", "failed"}
        /\ n_elements = 0
        /\ open_tags = <<>>
        /\ current_article = None
        /\ last_closed = None
        /\ articles = EmptyFn
        /\ redirects = EmptyFn
        /\ outputs = NoOutputs
        /\ files = EmptyFn
        /\ writes = <<>>

\* generate has returned the error for an input named *.txt.
C20_Witness ==
    /\ extension = <<"t", "x", "t">>
    /\ pc = "failed"
    /\ outputs.directories = {}

-----------------------------------------------------------------------------
(* Claims about errors of the decoder, under Spec. *)

\* C21: once the decoder has reported an error the run is over: no further
\* event is processed, the generation never starts, and no output directory
\* or artifact exists.
C21_DecoderErrorIsTerminal ==
    /\ [][pc # "failed"]_vars
    /\ [](pc = "failed" =>
             /\ outputs = NoOutputs
             /\ files = EmptyFn
             /\ writes = <<>>
             /\ order = <<>>)

\* The decoder failed after a page had been accepted.
C21_Witness ==
    /\ pc = "failed"
    /\ last_closed # None
    /\ last_closed[1].outcome = "article"

-----------------------------------------------------------------------------
(* clean_wikitext on its own: it is applied to each text of a family that  *)
(* grows from a seed by one character at a time.                           *)

CleanChars == {"a", " ", "\n", "\r", "=", "'", "<", ">", "[", "]"}

\* Plain text with indentation, a CRLF and a blank line.
PlainSeed ==
    <<" ", " ", "a", " ", "b", " ", "\r", "\n", "\n", "\t", " ", "a", " ", " ", "\n">>

\* Bold text, a piped link, a template and a heading one "=" short.
MarkupSeed ==
    <<"'", "'", "'", "a", "'", "'", "'", " ", "[", "[", "b", "|", "a", "]", "]", " ",
      "{", "{", "t", "}", "}", "\n", "=", "=", " ", "a", " ", "=">>

CleanSeeds == {<<>>, PlainSeed, MarkupSeed}

\* The characters appended to the seed so far.
Appended ==
    CHOOSE k \in 0..Len(wiki_text) :
        /\ SubSeq(wiki_text, 1, Len(wiki_text) - k) \in CleanSeeds
        /\ \A j \in 0..(k - 1) : SubSeq(wiki_text, 1, Len(wiki_text) - j) \notin CleanSeeds

CleanInit ==
    /\ pc = "cleaner"
    /\ config = [max_articles |-> None, topic_filter |-> None, exact_matches |-> FALSE]
    /\ extension = Xml
    /\ open_tags = <<>>
    /\ n_elements = 0
    /\ current_article = None
    /\ current_content = <<>>
    /\ articles_processed = 0
    /\ skip_content = FALSE
    /\ articles = EmptyFn
    /\ redirects = EmptyFn
    /\ first_id = None
    /\ page_text = <<>>
    /\ last_closed = None
    /\ since_tag = <<>>
    /\ handled = {}
    /\ order = <<>>
    /\ gen_i = 0
    /\ outputs = NoOutputs
    /\ files = EmptyFn
    /\ article_titles = {}
    /\ categories = EmptyFn
    /\ writes = <<>>
    /\ enc_title = <<>>
    /\ enc_name = <<>>
    /\ wiki_text \in CleanSeeds
    /\ wiki_clean = clean_wikitext(wiki_text)
    /\ gate_title = <<>>
    /\ gate_filter = <<>>
    /\ gate_result = FALSE

\* clean_wikitext(content) for the content one character longer.
Clean ==
    /\ pc = "cleaner"
    /\ Appended < MaxText
    /\ \E c \in CleanChars :
           /\ wiki_text' = Append(wiki_text, c)
           /\ wiki_clean' = clean_wikitext(wiki_text')
    /\ UNCHANGED <<pc, parser_vars, order, gen_i, outputs, writer_vars, enc_title, enc_name,
                   gate_vars>>

CleanNext == Clean

CleanSpec == CleanInit /\ [][CleanNext]_vars

-----------------------------------------------------------------------------
(* Claims about clean_wikitext, under CleanSpec. *)

\* No pattern of clean_wikitext matches anywhere in text.
NoMarkup(text) == strip_markup(text) = text

LineSpace == {" ", "\t", "\r", "\n"}

\* No line of text is empty, and none begins or ends with whitespace.
TidyLines(text) ==
    /\ text # <<>> => text[1] \notin LineSpace /\ text[Len(text)] \notin LineSpace
    /\ \A i \in 1..Len(text) :
           text[i] = "\n" =>
               /\ 1 < i /\ i < Len(text)
               /\ text[i - 1] \notin LineSpace
               /\ text[i + 1] \notin LineSpace

\* C22: cleaning a text without markup a second time changes nothing, and
\* the cleaned text has no empty line and no line that begins or ends with
\* whitespace.
C22_CleanIdempotentOnPlainText ==
    /\ NoMarkup(wiki_text) => clean_wikitext(wiki_clean) = wiki_clean
    /\ TidyLines(wiki_clean)

\* A text without markup that cleaning changed, into more than one line.
C22_Witness ==
    /\ NoMarkup(wiki_text)
    /\ wiki_clean # wiki_text
    /\ "\n" \in Range(wiki_clean)
    /\ Appended > 0

-----------------------------------------------------------------------------
(* Claims about the suppression flag, under Spec. *)

\* This step is the close of an element tag inside a page.
Closes(tag) ==
    /\ pc = "parse"
    /\ pc' = "parse"
    /\ current_article # None
    /\ Top = tag
    /\ Len(open_tags') = Len(open_tags) - 1

\* This step is the start of a page.
StartsPage ==
    /\ pc = "parse"
    /\ Len(open_tags') = Len(open_tags) + 1
    /\ open_tags'[Len(open_tags')] = "page"

\* C23, as stated: a page whose title the title gate rejected is not
\* emitted, in either mode, and holds no normalized text when it closes;
\* its id and redirect elements are still taken; the flag is clear after
\* every page close and every page start.
C23_RejectedPageDropped ==
    /\ [][ClosesPage /\ skip_content =>
             /\ articles' = articles
             /\ redirects' = redirects
             /\ handled' = handled
             /\ current_article[1].content = <<>>]_vars
    /\ [][Closes("redirect") /\ skip_content =>
             current_article'[1].redirect = Some(current_content)]_vars
    /\ [][Closes("id") /\ skip_content /\ current_article[1].id = 0 =>
             current_article'[1].id = parse_u64_or_0(current_content)]_vars
    /\ [][ClosesPage \/ StartsPage => ~skip_content']_vars
    /\ [](skip_content => current_article # None)

\* C23, amended: as above, but of the text it is only said that a text
\* element closing after the rejection leaves the page as it was.
C23_RejectedPageDropsLaterText ==
    /\ [][ClosesPage /\ skip_content =>
             /\ articles' = articles
             /\ redirects' = redirects
             /\ handled' = handled]_vars
    /\ [][Closes("text") /\ skip_content => current_article' = current_article]_vars
    /\ [][Closes("redirect") /\ skip_content =>
             current_article'[1].redirect = Some(current_content)]_vars
    /\ [][Closes("id") /\ skip_content /\ current_article[1].id = 0 =>
             current_article'[1].id = parse_u64_or_0(current_content)]_vars
    /\ [][ClosesPage \/ StartsPage => ~skip_content']_vars
    /\ [](skip_content => current_article # None)

\* A rejected page with a text element after its title has closed, nothing
\* of it was kept, and the next page has started unsuppressed.
C23_Witness ==
    /\ last_closed # None
    /\ last_closed[1].skipped
    /\ last_closed[1].text # <<>>
    /\ last_closed[1].content = <<>>
    /\ last_closed[1].outcome = "none"
    /\ current_article # None
    /\ ~skip_content
    /\ articles = EmptyFn

-----------------------------------------------------------------------------
(* Claims about the text accumulation buffer, under Spec. *)

\* C24: what a title, id, text or redirect element gives the page at its
\* close is made of the text events since the latest start or end tag,
\* joined in order, and of nothing else.
C24_ValueIsTextSinceLastTag ==
    /\ [][Closes("title") => current_article'[1].title = since_tag]_vars
    /\ [][Closes("id") /\ current_article[1].id = 0 =>
             current_article'[1].id = parse_u64_or_0(since_tag)]_vars
    /\ [][Closes("text") /\ ~skip_content =>
             current_article'[1].content = clean_wikitext(since_tag)]_vars
    /\ [][Closes("redirect") => current_article'[1].redirect = Some(since_tag)]_vars

\* A redirect element made of two text events has closed in a page whose
\* title element closed before it, and holds the two and nothing of the title.
C24_Witness ==
    /\ current_article # None
    /\ current_article[1].title = War
    /\ current_article[1].redirect = Some(cs \o cs)
    /\ Top = "page"

-----------------------------------------------------------------------------
(* should_include_by_title on its own: it is applied, with and without a   *)
(* filter, to each title of a family that grows from a seed by one         *)
(* character at a time.                                                    *)

GateChars == {"W", "A", "R", "a", "r", ":"}

\* The empty title, every excluded prefix, and two near misses: a prefix in
\* lower case and a prefix after a space.
GateSeeds ==
    {<<>>} \cup excluded_prefixes
        \cup {<<"f", "i", "l", "e", ":">>, <<" ", "T", "a", "l", "k", ":">>}

\* The characters appended to the seed so far.
GateAppended ==
    CHOOSE k \in 0..Len(gate_title) :
        /\ SubSeq(gate_title, 1, Len(gate_title) - k) \in GateSeeds
        /\ \A j \in 0..(k - 1) : SubSeq(gate_title, 1, Len(gate_title) - j) \notin GateSeeds

GateInit ==
    /\ pc = "gate"
    /\ config = [max_articles |-> None, topic_filter |-> None, exact_matches |-> FALSE]
    /\ extension = Xml
    /\ open_tags = <<>>
    /\ n_elements = 0
    /\ current_article = None
    /\ current_content = <<>>
    /\ articles_processed = 0
    /\ skip_content = FALSE
    /\ articles = EmptyFn
    /\ redirects = EmptyFn
    /\ first_id = None
    /\ page_text = <<>>
    /\ last_closed = None
    /\ since_tag = <<>>
    /\ handled = {}
    /\ order = <<>>
    /\ gen_i = 0
    /\ outputs = NoOutputs
    /\ files = EmptyFn
    /\ article_titles = {}
    /\ categories = EmptyFn
    /\ writes = <<>>
    /\ enc_title = <<>>
    /\ enc_name = <<>>
    /\ wiki_text = <<>>
    /\ wiki_clean = <<>>
    /\ gate_title \in GateSeeds
    /\ gate_filter \in {None, Some("History")}
    /\ gate_result = should_include_by_title(gate_title, gate_filter)

\* should_include_by_title(title, topic_filter) for the title one character longer.
Gate ==
    /\ pc = "gate"
    /\ GateAppended < MaxTitle
    /\ \E c \in GateChars :
           /\ gate_title' = Append(gate_title, c)
           /\ gate_result' = should_include_by_title(gate_title', gate_filter)
    /\ UNCHANGED <<pc, parser_vars, order, gen_i, outputs, writer_vars, enc_title, enc_name,
                   clean_vars, gate_filter>>

GateNext == Gate

GateSpec == GateInit /\ [][GateNext]_vars

-----------------------------------------------------------------------------
(* Claims about the title gate, under GateSpec. *)

\* The namespace prefixes, as the specification of the gate lists them.
NamespaceNames ==
    {<<"F", "i", "l", "e">>, <<"C", "a", "t", "e", "g", "o", "r", "y">>,
     <<"T", "e", "m", "p", "l", "a", "t", "e">>, <<"U", "s", "e", "r">>,
     <<"T", "a", "l", "k">>, <<"W", "i", "k", "i", "p", "e", "d", "i", "a">>,
     <<"H", "e", "l", "p">>, <<"P", "o", "r", "t", "a", "l">>,
     <<"M", "e", "d", "i", "a", "W", "i", "k", "i">>, <<"M", "o", "d", "u", "l", "e">>}

\* title begins with a namespace name and a colon.
InNamespace(title) ==
    \E name \in NamespaceNames :
        /\ Len(title) > Len(name)
        /\ \A i \in 1..Len(name) : title[i] = name[i]
        /\ title[Len(name) + 1] = ":"

\* word occurs in title, letter case apart.
OccursIgnoringCase(title, word) ==
    \E at \in 1..Len(title) :
        /\ at + Len(word) - 1 <= Len(title)
        /\ \A j \in 1..Len(word) : LowerChar(title[at + j - 1]) = LowerChar(word[j])

\* C25: the gate accepts a title exactly when the title is not empty, is in
\* no excluded namespace, and, if a filter is active, holds one of the
\* filter's keywords, letter case apart.
C25_TitleGate ==
    gate_result <=>
        /\ gate_title # <<>>
        /\ ~InNamespace(gate_title)
        /\ gate_filter # None =>
               \E keyword \in keywords(gate_filter[1]) : OccursIgnoringCase(gate_title, keyword)

\* A title accepted under a filter for a keyword it spells in capitals.
C25_Witness ==
    /\ gate_filter # None
    /\ gate_title = <<"W", "A", "R">>
    /\ gate_result

-----------------------------------------------------------------------------
(* Claims about the two read loops together, under Spec. *)

\* C26: no page with an empty title is accepted: the empty title is a key
\* of neither store, and the streaming handler is never called with it.
C26_NoEmptyTitleAccepted ==
    /\ <<>> \notin DOMAIN articles
    /\ <<>> \notin DOMAIN redirects
    /\ <<>> \notin handled

\* C27: without a cap, when the input has been read to its end, the titles
\* the streaming handler was called with are the keys of ArticleStore.
C27_HandlerTitlesAreArticleKeys ==
    pc = "parsed" /\ config.max_articles = None => handled = DOMAIN articles

-----------------------------------------------------------------------------
(* Claims about the outputs of a batch run, under Spec and ListSpec. *)

\* C28: after a batch run every category artifact names each accepted
\* article of its category exactly once, and its count is the number of
\* distinct titles it names.
C28_CategoryMembersOnce ==
    pc = "done" =>
        \A c \in DOMAIN outputs.category_files :
            LET listed == outputs.category_files[c].articles
            IN  /\ \A t \in DOMAIN articles :
                       c \in Range(categorize(t, articles[t].content))
                           => Cardinality({i \in DOMAIN listed : listed[i] = t}) = 1
                /\ outputs.category_files[c].count = Cardinality(Range(listed))

\* Every title the title list resource or a listing page names.
ListedTitles ==
    (IF outputs.articles = None THEN {} ELSE Range(outputs.articles[1]))
    \cup UNION {Range(outputs.list_pages[p].articles) : p \in DOMAIN outputs.list_pages}

\* C29: after a batch run, with exact_matches on or off, every title the
\* title list resource or a listing page names has an artifact under its
\* encoded filename, and the body of that artifact names the title.
C29_ListedTitlesHaveArtifacts ==
    pc = "done" =>
        \A t \in ListedTitles :
            /\ encode_staticmcp_filename(t) \in DOMAIN files
            /\ Contains(Base(files, encode_staticmcp_filename(t)), t)

-----------------------------------------------------------------------------
(* Claims about repeated writes, under WriterSpec. *)

\* C30: a write that repeats the write before it, same title and same
\* content, leaves the base artifact of its filename as that write left it.
C30_RepeatedWriteChangesNothing ==
    [][/\ Wrote
       /\ writes # <<>>
       /\ writes[Len(writes)].title = LastWrite.title
       /\ writes[Len(writes)].content = LastWrite.content
       => Base(files', LastFile) = Base(files, LastFile)]_vars

====
